---- MODULE Spec2Model ----
(***************************************************************************)
(* Model of microservices_connector/spawn.py:                              *)
(*   - DistributedThreads / AsyncThread: the affinity worker pool          *)
(*   - AsyncToSync / SyncToAsync: the execution-context bridge             *)
(* Spec         : the pool (default out_queue), submissions one at a time  *)
(* SpecAffinity : the pool again, with two keys, for routing and the deques *)
(* SpecShutdown : the pool with shutdown() and the output queue            *)
(* SpecShutdownFair : shutdown() when every thread is scheduled            *)
(* SpecConc     : submit_id calls of several threads, interleaved          *)
(* SpecBridge   : AsyncToSync / SyncToAsync calls across threads and loops *)
(***************************************************************************)
EXTENDS Integers, Sequences, FiniteSets, TLC

\* ------------------------------------------------------------------ bounds
\* largest max_workers drawn at construction
MaxN == 2
\* largest max_watching drawn at construction
MaxM == 2
\* number of distinct affinity keys the submitters use
MaxKeys == 3
\* number of submissions in a run of the sequential pool
MaxSubmit == 3

\* Python's None (an absent key, an unset worker_id, no task held)
None == -1

Keys == 1..MaxKeys

VARIABLES
    \* ---- DistributedThreads fields
    max_workers,      \* self.max_workers
    max_watching,     \* self.max_watching
    has_out,          \* self.out_queue is not None
    out_queue,        \* contents of self.out_queue (results put by the workers)
    current_id,       \* self.current_id, the round-robin cursor
    queue_list,       \* self.queue_list[i]: items of Queue i, head first
    unfinished,       \* self.queue_list[i].unfinished_tasks
    watching_list,    \* self.watching_list[i]: deque of keys, oldest first
    \* ---- AsyncThread (one per worker)
    wpc,              \* position of worker i in run()
    wtask,            \* the item worker i took from its queue
    \* ---- the thread that calls shutdown()
    sd_pc,            \* "idle", "joining", "returned"
    sd_i,             \* index of the queue being joined
    \* ---- history of the run (not read by the program)
    log,              \* one record per completed submission
    executed,         \* executed[i]: ids of the tasks worker i called, in order
    finished,         \* ids of the tasks whose callable has returned
    late,             \* a submission was made after shutdown() was called
    \* ---- threads inside submit_id at the same time (SpecConc)
    th,               \* th[t]: the locals and the position of thread t
    calls,            \* number of submit_id calls started
    \* ---- the bridge (SpecBridge)
    bstack,           \* bstack[t]: the call stack of thread t, innermost last
    cur_loop,         \* cur_loop[t]: the loop asyncio.set_event_loop gave t
    tl_loop,          \* tl_loop[t]: SyncToAsync.threadlocal.main_event_loop
    home_running,     \* the main thread's loop is running
    wrappers,         \* main_event_loop of the AsyncToSync objects constructed
    a2s,              \* one record per AsyncToSync.__call__: its Future and
                      \* private loop, and the history of the call
    tasks,            \* the coroutines (asyncio tasks) created so far
    ready,            \* the ready tasks of all loops, in the order they
                      \* became ready
    exq,              \* work queue of SyncToAsync.threadpool
    nstart            \* number of calls started by the application

poolVars == <<max_workers, max_watching, has_out, out_queue, current_id,
              queue_list, unfinished, watching_list, wpc, wtask, sd_pc, sd_i,
              log, executed, finished, late>>

concVars == <<th, calls>>

bridgeVars == <<bstack, cur_loop, tl_loop, home_running, wrappers, a2s, tasks,
                ready, exq, nstart>>

vars == <<poolVars, concVars, bridgeVars>>

Workers == 0..(max_workers - 1)

\* ------------------------------------------------------- pure helpers
\* `key in watching` on a deque
KeyIn(watching, key) == \E p \in 1..Len(watching) : watching[p] = key

\* the keys of a deque, as a set
KeySet(watching) == {watching[p] : p \in 1..Len(watching)}

\* a choose_worker that does not advance from the cursor
choose_worker_stuck(cur, n) == cur % n

\* DistributedThreads.choose_worker
choose_worker(cur, n) == (cur + 1) % n

\* an iterate_queue that drops the newest key instead of the oldest
iterate_queue_pop_right(watching, key, m) ==
    LET w1 == IF ~KeyIn(watching, key) /\ key # None
              THEN Append(watching, key) ELSE watching
    IN  IF Len(w1) > m THEN SubSeq(w1, 1, Len(w1) - 1) ELSE w1

\* an iterate_queue that never removes a key
iterate_queue_unbounded(watching, key, m) ==
    IF ~KeyIn(watching, key) /\ key # None
    THEN Append(watching, key) ELSE watching

\* an iterate_queue that appends the key without looking for it
iterate_queue_dup(watching, key, m) ==
    LET w1 == IF key # None THEN Append(watching, key) ELSE watching
    IN  IF Len(w1) > m THEN Tail(w1) ELSE w1

\* DistributedThreads.iterate_queue: the deque after the call
iterate_queue(watching, key, m) ==
    LET w1 == IF ~KeyIn(watching, key) /\ key # None
              THEN Append(watching, key) ELSE watching
    IN  IF Len(w1) > m THEN Tail(w1) ELSE w1

\* The for-loop of submit_id (lines 100-106) from index i on, with worker_id
\* wid so far: the worker_id it ends with and whether it raised.
RECURSIVE ScanLoop(_, _, _, _, _)
ScanLoop(wl, key, i, wid, n) ==
    IF i >= n THEN [worker_id |-> wid, raised |-> FALSE]
    ELSE IF KeyIn(wl[i], key)
         THEN IF wid # None
              THEN [worker_id |-> wid, raised |-> TRUE]
              ELSE [worker_id |-> i, raised |-> FALSE]   \* worker_id = i; break
         ELSE ScanLoop(wl, key, i + 1, wid, n)

\* a scan that never finds the key
FindWorker_blind(wl, key, n) == [worker_id |-> None, raised |-> FALSE]

\* lines 97-106: worker_id after the scan (None when the key is None)
FindWorker(wl, key, n) ==
    IF key # None THEN ScanLoop(wl, key, 0, None, n)
    ELSE [worker_id |-> None, raised |-> FALSE]

\* ---- the bridge before any call
\* size of SyncToAsync.threadpool (ASGI_THREADS)
MaxExec == 1

\* the main thread, a thread started by the application, the executor's threads
MainThread == 0
PlainThread == 1
ExecThreads == 2..(MaxExec + 1)
BThreads == {MainThread, PlainThread} \cup ExecThreads

\* the loop asyncio.get_event_loop() gives the main thread; a private loop is
\* named by the number (>= 1) of the AsyncToSync call that made it
HomeLoop == 0

BridgeInit ==
    /\ bstack = [t \in BThreads |-> <<>>]
    /\ cur_loop = [t \in BThreads |-> IF t = MainThread THEN HomeLoop ELSE None]
    /\ tl_loop = [t \in BThreads |-> None]
    /\ home_running = FALSE
    /\ wrappers = {}
    /\ a2s = <<>>
    /\ tasks = <<>>
    /\ ready = <<>>
    /\ exq = <<>>
    /\ nstart = 0

\* ------------------------------------------------------------------ Init
\* number of threads that call submit_id without a lock
MaxThreads == 2

Threads == 1..MaxThreads

\* no thread is inside submit_id
ConcInit ==
    /\ th = [t \in Threads |-> [pc |-> "idle", key |-> None, worker_id |-> None,
                                i |-> 0, id |-> 0, dup |-> FALSE, out |-> "none"]]
    /\ calls = 0

\* DistributedThreads.__init__ / init_worker, for any max_workers >= 1,
\* max_watching >= 0, with or without an output queue.
PoolInit(Ns, Ms, Outs) ==
    /\ max_workers \in Ns
    /\ max_watching \in Ms
    /\ has_out \in Outs
    /\ out_queue = <<>>
    /\ current_id = 0
    /\ queue_list = [i \in 0..(max_workers - 1) |-> <<>>]
    /\ unfinished = [i \in 0..(max_workers - 1) |-> 0]
    /\ watching_list = [i \in 0..(max_workers - 1) |-> <<>>]
    /\ wpc = [i \in 0..(max_workers - 1) |-> "get"]
    /\ wtask = [i \in 0..(max_workers - 1) |-> None]
    /\ sd_pc = "idle"
    /\ sd_i = 0
    /\ log = <<>>
    /\ executed = [i \in 0..(max_workers - 1) |-> <<>>]
    /\ finished = {}
    /\ late = FALSE

\* Spec: a pool constructed with the default out_queue=None
Init == PoolInit(1..MaxN, 0..MaxM, {FALSE}) /\ ConcInit /\ BridgeInit

\* ------------------------------------------------- submissions, one at a time
\* DistributedThreads.submit_id(key, f, ...) as one step: the scan, the choice
\* of the worker, the cursor update, iterate_queue and the put.
submit_id(key) ==
    /\ LET found == FindWorker(watching_list, key, max_workers)
           hit == found.worker_id # None
           worker_id == IF hit THEN found.worker_id
                        ELSE choose_worker(current_id, max_workers)
           watching == watching_list[worker_id]
           after == iterate_queue(watching, key, max_watching)
           id == Len(log) + 1
       IN  /\ ~found.raised
           /\ current_id' = worker_id
           /\ watching_list' = [watching_list EXCEPT ![worker_id] = after]
           /\ queue_list' = [queue_list EXCEPT
                  ![worker_id] = Append(@, [id |-> id, key |-> key])]
           /\ unfinished' = [unfinished EXCEPT ![worker_id] = @ + 1]
           /\ log' = Append(log, [key |-> key, worker |-> worker_id,
                                  hit |-> hit, cursor |-> current_id,
                                  before |-> watching, after |-> after,
                                  evicted |-> (KeySet(watching) \cup {key})
                                               \ (KeySet(after) \cup {None})])
    /\ late' = (late \/ sd_pc # "idle")
    /\ UNCHANGED <<max_workers, max_watching, has_out, out_queue, wpc, wtask,
                   sd_pc, sd_i, executed, finished>>

\* DistributedThreads.submit(f, ...)
submit == submit_id(None)

\* ------------------------------------------------------------ AsyncThread.run
\* a get() that takes the newest item of the queue
WorkerGet_lifo(w) ==
    /\ wpc[w] = "get"
    /\ queue_list[w] # <<>>
    /\ wtask' = [wtask EXCEPT ![w] = queue_list[w][Len(queue_list[w])].id]
    /\ queue_list' = [queue_list EXCEPT ![w] = SubSeq(@, 1, Len(@) - 1)]
    /\ wpc' = [wpc EXCEPT ![w] = "call"]
    /\ UNCHANGED <<max_workers, max_watching, has_out, out_queue, current_id,
                   unfinished, watching_list, sd_pc, sd_i, log, executed,
                   finished, late>>

\* f, args, kwargs = self.queue.get()   (blocks while the queue is empty)
WorkerGet(w) ==
    /\ wpc[w] = "get"
    /\ queue_list[w] # <<>>
    /\ wtask' = [wtask EXCEPT ![w] = Head(queue_list[w]).id]
    /\ queue_list' = [queue_list EXCEPT ![w] = Tail(@)]
    /\ wpc' = [wpc EXCEPT ![w] = "call"]
    /\ UNCHANGED <<max_workers, max_watching, has_out, out_queue, current_id,
                   unfinished, watching_list, sd_pc, sd_i, log, executed,
                   finished, late>>

\* result = f(*args, **kwargs) returns
WorkerCallReturn(w) ==
    /\ wpc[w] = "call"
    /\ executed' = [executed EXCEPT ![w] = Append(@, wtask[w])]
    /\ finished' = finished \cup {wtask[w]}
    /\ wpc' = [wpc EXCEPT ![w] = "put"]
    /\ UNCHANGED <<max_workers, max_watching, has_out, out_queue, current_id,
                   queue_list, unfinished, watching_list, wtask, sd_pc, sd_i,
                   log, late>>

\* a worker that survives the exception and goes on to task_done()
WorkerCallRaise_caught(w) ==
    /\ wpc[w] = "call"
    /\ executed' = [executed EXCEPT ![w] = Append(@, wtask[w])]
    /\ wpc' = [wpc EXCEPT ![w] = "task_done"]
    /\ UNCHANGED <<max_workers, max_watching, has_out, out_queue, current_id,
                   queue_list, unfinished, watching_list, wtask, sd_pc, sd_i,
                   log, finished, late>>

\* f(*args, **kwargs) raises: nothing catches it, run() ends, the thread dies
WorkerCallRaise(w) ==
    /\ wpc[w] = "call"
    /\ executed' = [executed EXCEPT ![w] = Append(@, wtask[w])]
    /\ wpc' = [wpc EXCEPT ![w] = "dead"]
    /\ UNCHANGED <<max_workers, max_watching, has_out, out_queue, current_id,
                   queue_list, unfinished, watching_list, wtask, sd_pc, sd_i,
                   log, finished, late>>

\* a worker that forwards no result
WorkerPut_skip(w) ==
    /\ wpc[w] = "put"
    /\ out_queue' = out_queue
    /\ wpc' = [wpc EXCEPT ![w] = "task_done"]
    /\ UNCHANGED <<max_workers, max_watching, has_out, current_id, queue_list,
                   unfinished, watching_list, wtask, sd_pc, sd_i, log,
                   executed, finished, late>>

\* if self.out_queue is not None: self.out_queue.put(result)
WorkerPut(w) ==
    /\ wpc[w] = "put"
    /\ out_queue' = IF has_out THEN Append(out_queue, wtask[w]) ELSE out_queue
    /\ wpc' = [wpc EXCEPT ![w] = "task_done"]
    /\ UNCHANGED <<max_workers, max_watching, has_out, current_id, queue_list,
                   unfinished, watching_list, wtask, sd_pc, sd_i, log,
                   executed, finished, late>>

\* a worker that goes back to the top of the loop without task_done()
WorkerTaskDone_forgot(w) ==
    /\ wpc[w] = "task_done"
    /\ unfinished' = unfinished
    /\ wtask' = [wtask EXCEPT ![w] = None]
    /\ wpc' = [wpc EXCEPT ![w] = "get"]
    /\ UNCHANGED <<max_workers, max_watching, has_out, out_queue, current_id,
                   queue_list, watching_list, sd_pc, sd_i, log, executed,
                   finished, late>>

\* self.queue.task_done(), then back to the top of the loop
WorkerTaskDone(w) ==
    /\ wpc[w] = "task_done"
    /\ unfinished' = [unfinished EXCEPT ![w] = @ - 1]
    /\ wtask' = [wtask EXCEPT ![w] = None]
    /\ wpc' = [wpc EXCEPT ![w] = "get"]
    /\ UNCHANGED <<max_workers, max_watching, has_out, out_queue, current_id,
                   queue_list, watching_list, sd_pc, sd_i, log, executed,
                   finished, late>>

\* ------------------------------------------------- DistributedThreads.shutdown
\* shutdown() is called: the loop over queue_list starts
ShutdownCall ==
    /\ sd_pc = "idle"
    /\ sd_pc' = "joining"
    /\ sd_i' = 0
    /\ UNCHANGED <<max_workers, max_watching, has_out, out_queue, current_id,
                   queue_list, unfinished, watching_list, wpc, wtask, log,
                   executed, finished, late>>

\* a shutdown that joins the first queue only
ShutdownJoin_first_only ==
    /\ sd_pc = "joining"
    /\ unfinished[sd_i] = 0
    /\ sd_i' = sd_i /\ sd_pc' = "returned"
    /\ UNCHANGED <<max_workers, max_watching, has_out, out_queue, current_id,
                   queue_list, unfinished, watching_list, wpc, wtask, log,
                   executed, finished, late>>

\* q.join() returns once the queue's unfinished_tasks is 0; after the last
\* queue shutdown() returns
ShutdownJoin ==
    /\ sd_pc = "joining"
    /\ unfinished[sd_i] = 0
    /\ IF sd_i + 1 < max_workers
       THEN sd_i' = sd_i + 1 /\ sd_pc' = "joining"
       ELSE sd_i' = sd_i /\ sd_pc' = "returned"
    /\ UNCHANGED <<max_workers, max_watching, has_out, out_queue, current_id,
                   queue_list, unfinished, watching_list, wpc, wtask, log,
                   executed, finished, late>>

Next ==
    \/ Len(log) < MaxSubmit /\ submit /\ UNCHANGED <<concVars, bridgeVars>>
    \/ \E key \in Keys :
          Len(log) < MaxSubmit /\ submit_id(key) /\ UNCHANGED <<concVars, bridgeVars>>
    \/ \E w \in Workers : WorkerGet(w) /\ UNCHANGED <<concVars, bridgeVars>>
    \/ \E w \in Workers : WorkerCallReturn(w) /\ UNCHANGED <<concVars, bridgeVars>>
    \/ \E w \in Workers : WorkerCallRaise(w) /\ UNCHANGED <<concVars, bridgeVars>>
    \/ \E w \in Workers : WorkerPut(w) /\ UNCHANGED <<concVars, bridgeVars>>
    \/ \E w \in Workers : WorkerTaskDone(w) /\ UNCHANGED <<concVars, bridgeVars>>

Spec == Init /\ [][Next]_vars

\* ---- SpecAffinity: the same pool, for the properties of the deques alone
MaxAffN == 2
MaxAffM == 2
MaxAffKeys == 2
MaxAffSubmit == 3

InitAffinity == PoolInit(1..MaxAffN, 0..MaxAffM, {FALSE}) /\ ConcInit /\ BridgeInit

NextAffinity ==
    \/ Len(log) < MaxAffSubmit /\ submit /\ UNCHANGED <<concVars, bridgeVars>>
    \/ \E key \in 1..MaxAffKeys :
          Len(log) < MaxAffSubmit /\ submit_id(key) /\ UNCHANGED <<concVars, bridgeVars>>
    \/ \E w \in Workers : WorkerGet(w) /\ UNCHANGED <<concVars, bridgeVars>>
    \/ \E w \in Workers : WorkerCallReturn(w) /\ UNCHANGED <<concVars, bridgeVars>>
    \/ \E w \in Workers : WorkerCallRaise(w) /\ UNCHANGED <<concVars, bridgeVars>>
    \/ \E w \in Workers : WorkerPut(w) /\ UNCHANGED <<concVars, bridgeVars>>
    \/ \E w \in Workers : WorkerTaskDone(w) /\ UNCHANGED <<concVars, bridgeVars>>

SpecAffinity == InitAffinity /\ [][NextAffinity]_vars

\* ---- the pool with shutdown(): tasks, workers and the barrier
MaxSdN == 2
MaxSdKeys == 1
MaxTasks == 3

InitShutdown ==
    PoolInit(1..MaxSdN, 0..MaxSdKeys, BOOLEAN) /\ ConcInit /\ BridgeInit

NextShutdown ==
    \/ Len(log) < MaxTasks /\ submit /\ UNCHANGED <<concVars, bridgeVars>>
    \/ \E key \in 1..MaxSdKeys :
          Len(log) < MaxTasks /\ submit_id(key) /\ UNCHANGED <<concVars, bridgeVars>>
    \/ \E w \in Workers : WorkerGet(w) /\ UNCHANGED <<concVars, bridgeVars>>
    \/ \E w \in Workers : WorkerCallReturn(w) /\ UNCHANGED <<concVars, bridgeVars>>
    \/ \E w \in Workers : WorkerCallRaise(w) /\ UNCHANGED <<concVars, bridgeVars>>
    \/ \E w \in Workers : WorkerPut(w) /\ UNCHANGED <<concVars, bridgeVars>>
    \/ \E w \in Workers : WorkerTaskDone(w) /\ UNCHANGED <<concVars, bridgeVars>>
    \/ ShutdownCall /\ UNCHANGED <<concVars, bridgeVars>>
    \/ ShutdownJoin /\ UNCHANGED <<concVars, bridgeVars>>

SpecShutdown == InitShutdown /\ [][NextShutdown]_vars

\* ---- SpecShutdownFair: every callable returns, nothing is submitted once
\* shutdown() is called, and every thread that can step eventually does
MaxFairN == 2
MaxFairTasks == 3

\* the steps of the AsyncThread of worker w when no callable raises
WorkerStep(w) ==
    /\ w \in Workers
    /\ \/ WorkerGet(w)
       \/ WorkerCallReturn(w)
       \/ WorkerPut(w)
       \/ WorkerTaskDone(w)

InitShutdownFair ==
    PoolInit(1..MaxFairN, 0..1, BOOLEAN) /\ ConcInit /\ BridgeInit

NextShutdownFair ==
    \/ /\ Len(log) < MaxFairTasks /\ sd_pc = "idle"
       /\ submit /\ UNCHANGED <<concVars, bridgeVars>>
    \/ /\ Len(log) < MaxFairTasks /\ sd_pc = "idle"
       /\ submit_id(1) /\ UNCHANGED <<concVars, bridgeVars>>
    \/ \E w \in Workers : WorkerGet(w) /\ UNCHANGED <<concVars, bridgeVars>>
    \/ \E w \in Workers : WorkerCallReturn(w) /\ UNCHANGED <<concVars, bridgeVars>>
    \/ \E w \in Workers : WorkerPut(w) /\ UNCHANGED <<concVars, bridgeVars>>
    \/ \E w \in Workers : WorkerTaskDone(w) /\ UNCHANGED <<concVars, bridgeVars>>
    \/ ShutdownCall /\ UNCHANGED <<concVars, bridgeVars>>
    \/ ShutdownJoin /\ UNCHANGED <<concVars, bridgeVars>>

\* the worker threads and the thread inside shutdown() are scheduled
FairPool ==
    /\ \A w \in 0..(MaxFairN - 1) :
          WF_vars(WorkerStep(w) /\ UNCHANGED <<concVars, bridgeVars>>)
    /\ WF_vars(ShutdownJoin /\ UNCHANGED <<concVars, bridgeVars>>)

SpecShutdownFair == InitShutdownFair /\ [][NextShutdownFair]_vars /\ FairPool

\* ======================================================================
\* Properties of the pool
\* ======================================================================
Range(seq) == {seq[p] : p \in 1..Len(seq)}

\* position of x in seq (0 when absent)
Pos(seq, x) == IF x \in Range(seq)
               THEN CHOOSE p \in 1..Len(seq) : seq[p] = x ELSE 0

\* the ids of the tasks worker w was given, in the order it runs them: those it
\* has called, the one it holds, those still in its queue
Pipeline(w) ==
    executed[w]
    \o (IF wpc[w] = "call" THEN <<wtask[w]>> ELSE <<>>)
    \o [p \in 1..Len(queue_list[w]) |-> queue_list[w][p].id]

\* the workers whose pipeline holds task id
HoldersOf(id) == {w \in Workers : id \in Range(Pipeline(w))}

\* key stayed resident from the submission i to the submission j
Resident(key, i, j) == \A m \in i..(j - 1) : key \notin log[m].evicted

\* C1: tasks submitted one at a time with the same key, the key not evicted
\* between them, are all enqueued on the same worker, and that worker (and no
\* other) calls them in submission order, whatever is submitted in between.
C1_KeyAffinity ==
    \A i \in 1..Len(log) : \A j \in (i + 1)..Len(log) :
        (log[i].key # None /\ log[i].key = log[j].key
            /\ Resident(log[i].key, i, j))
        => /\ HoldersOf(i) = HoldersOf(j)
           /\ Cardinality(HoldersOf(i)) = 1
           /\ \A w \in Workers :
                 /\ Pos(Pipeline(w), i) <= Pos(Pipeline(w), j)
                 /\ (j \in Range(executed[w]) =>
                        /\ i \in Range(executed[w])
                        /\ Pos(executed[w], i) < Pos(executed[w], j))

\* two tasks of one key, an unrelated submission between them, both called
C1_Witness ==
    /\ max_workers >= 2
    /\ \E i \in 1..Len(log) : \E j \in (i + 2)..Len(log) :
          /\ log[i].key # None /\ log[i].key = log[j].key
          /\ log[i + 1].key # log[i].key
          /\ log[i + 1].worker # log[i].worker
          /\ Resident(log[i].key, i, j)
          /\ \E w \in Workers : {i, j} \subseteq Range(executed[w])

\* C2: after any sequence of submit / submit_id calls issued one at a time,
\* each key is in at most one worker's watching_list entry.
C2_KeyInOneWorker ==
    \A key \in Keys :
        Cardinality({w \in Workers : KeyIn(watching_list[w], key)}) <= 1

\* a resident key was submitted again while another worker holds another key
C2_Witness ==
    /\ max_workers >= 2
    /\ \E i \in 1..Len(log) : log[i].hit
    /\ \E w1 \in Workers : \E w2 \in Workers \ {w1} :
          watching_list[w1] # <<>> /\ watching_list[w2] # <<>>

\* the submissions a..b are all unkeyed
Unkeyed(a, b) == \A m \in a..b : log[m].key = None

\* C5: an unkeyed submit puts the task on worker (cursor + 1) mod N and leaves
\* the cursor on that worker; K consecutive unkeyed submits, K a multiple of
\* N, give each worker exactly K/N of those tasks, whatever the cursor was.
C5_RoundRobin ==
    /\ \A id \in 1..Len(log) :
          log[id].key = None =>
             /\ HoldersOf(id) = {(log[id].cursor + 1) % max_workers}
             /\ IF id < Len(log)
                THEN log[id + 1].cursor = (log[id].cursor + 1) % max_workers
                ELSE current_id = (log[id].cursor + 1) % max_workers
    /\ \A a \in 1..Len(log) : \A b \in a..Len(log) :
          (Unkeyed(a, b) /\ (b - a + 1) % max_workers = 0)
          => \A w \in Workers :
                Cardinality({id \in a..b : w \in HoldersOf(id)})
                    = (b - a + 1) \div max_workers

\* N = 2: a keyed submission, then two unkeyed ones
C5_Witness ==
    /\ max_workers = 2
    /\ \E a \in 2..Len(log) :
          /\ log[a - 1].key # None
          /\ a + 1 <= Len(log)
          /\ Unkeyed(a, a + 1)

\* C6: with max_watching >= 1, a new key given to a worker whose deque is full
\* removes exactly the oldest key and keeps the others in insertion order; a
\* submission with a resident key leaves the deque as it is.
C6_FifoEviction ==
    /\ \A id \in 1..Len(log) :
          /\ (max_watching >= 1 /\ log[id].key # None /\ ~log[id].hit
                /\ Len(log[id].before) = max_watching)
             => log[id].after = Append(Tail(log[id].before), log[id].key)
          /\ log[id].hit => log[id].after = log[id].before
    /\ \A w \in Workers :
          LET mine == {id \in 1..Len(log) : log[id].worker = w}
          IN  IF mine = {} THEN watching_list[w] = <<>>
              ELSE watching_list[w] =
                      log[CHOOSE id \in mine : \A o \in mine : o <= id].after

\* a full deque of two keys took a third key; a resident key was resubmitted
C6_Witness ==
    /\ max_watching = 2
    /\ \E id \in 1..Len(log) :
          /\ Len(log[id].before) = 2 /\ ~log[id].hit /\ log[id].key # None
          /\ log[id].evicted # {}

\* a resident key was submitted again
C6_WitnessHit == \E id \in 1..Len(log) : log[id].hit

\* C7: when shutdown() returns and no submission was made after it was
\* called, every task enqueued before has finished: none is queued or running.
C7_ShutdownBarrier ==
    (sd_pc = "returned" /\ ~late)
    => /\ \A id \in 1..Len(log) : id \in finished
       /\ \A w \in Workers : queue_list[w] = <<>> /\ wpc[w] # "call"

\* shutdown() returned with tasks on two workers
C7_Witness ==
    /\ sd_pc = "returned" /\ ~late
    /\ max_workers >= 2
    /\ \E i \in 1..Len(log) : \E j \in 1..Len(log) :
          log[i].worker # log[j].worker

\* C21: when every callable returns and nothing is submitted after shutdown()
\* is called, shutdown() eventually returns, however the tasks are spread
\* over the queues; and it stops no worker: once it has returned every worker
\* is alive, blocked in get() on its empty queue.
C21_ShutdownReturns ==
    /\ (sd_pc = "joining") ~> (sd_pc = "returned")
    /\ [](sd_pc = "returned" =>
            \A w \in Workers :
                wpc[w] = "get" /\ queue_list[w] = <<>> /\ unfinished[w] = 0)

\* shutdown() returned after three tasks, all given to one of two workers by
\* their key
C21_Witness ==
    /\ sd_pc = "returned"
    /\ max_workers = 2
    /\ Len(log) = 3
    /\ \E w \in Workers : Len(executed[w]) = 3

\* the cursor (current_id) left by the submission id
CursorAfter(id) == IF id < Len(log) THEN log[id + 1].cursor ELSE current_id

\* C12: with max_watching = 0 every deque is empty after each submission and
\* every submit_id call, whatever its key and whatever was submitted before,
\* goes to worker (cursor + 1) mod N and leaves the cursor there, as submit
\* does.
C12_ZeroCapacityRoundRobin ==
    max_watching = 0 =>
       /\ \A w \in Workers : watching_list[w] = <<>>
       /\ \A id \in 1..Len(log) :
             /\ ~log[id].hit
             /\ log[id].after = <<>>
             /\ log[id].worker = (log[id].cursor + 1) % max_workers
             /\ HoldersOf(id) = {log[id].worker}
             /\ CursorAfter(id) = log[id].worker

\* max_watching = 0, two workers: one key submitted twice in a row, then
\* another submission
C12_Witness ==
    /\ max_watching = 0
    /\ max_workers = 2
    /\ Len(log) >= 3
    /\ log[1].key # None /\ log[2].key = log[1].key
    /\ log[1].worker # log[2].worker

\* C13: a submit_id call whose key is resident in a worker's deque puts the
\* task on that worker and leaves the cursor (current_id) as it was.
C13_HitKeepsCursor ==
    \A id \in 1..Len(log) :
        log[id].hit =>
            /\ KeyIn(log[id].before, log[id].key)
            /\ HoldersOf(id) = {log[id].worker}
            /\ CursorAfter(id) = log[id].cursor

\* C18: after every submission made one at a time, every worker's deque has
\* no key twice and at most max_watching keys.
C18_DequeBounded ==
    /\ \A w \in Workers :
          /\ Len(watching_list[w]) <= max_watching
          /\ Cardinality(KeySet(watching_list[w])) = Len(watching_list[w])
    /\ \A id \in 1..Len(log) :
          /\ Len(log[id].after) <= max_watching
          /\ Cardinality(KeySet(log[id].after)) = Len(log[id].after)

\* a deque of max_watching = 2 keys is full after a resident key was
\* submitted again and a third key was added
C18_Witness ==
    /\ max_watching = 2
    /\ \E w \in Workers : Len(watching_list[w]) = 2
    /\ \E id \in 1..Len(log) : log[id].hit /\ Len(log[id].before) = 2
    /\ \E id \in 1..Len(log) : ~log[id].hit /\ Len(log[id].before) = 1

\* the number of results of task id on the output queue
Forwarded(id) == Cardinality({p \in 1..Len(out_queue) : out_queue[p] = id})

\* task_done() was called for task id: its callable returned and its worker
\* no longer holds it
Signalled(id) == id \in finished /\ \A w \in Workers : wtask[w] # id

\* C11: in a pool with an output queue, the result of a task is put on the
\* queue once, only after its callable returned and before task_done() is
\* called for it; so when shutdown() has returned with no submission made
\* after it was called, the output queue holds exactly one result for each
\* task enqueued.
C11_ResultForwardedOnce ==
    has_out =>
       /\ \A id \in 1..Len(log) :
             /\ Forwarded(id) <= 1
             /\ Forwarded(id) = 1 => id \in finished
             /\ Signalled(id) => Forwarded(id) = 1
       /\ \A p \in 1..Len(out_queue) : out_queue[p] \in 1..Len(log)
       /\ (sd_pc = "returned" /\ ~late) =>
             /\ Len(out_queue) = Len(log)
             /\ \A id \in 1..Len(log) : Forwarded(id) = 1

\* shutdown() returned in a pool with an output queue after three tasks, two
\* of them run by one worker
C11_Witness ==
    /\ has_out
    /\ sd_pc = "returned" /\ ~late
    /\ Len(log) = MaxTasks
    /\ Len(out_queue) = MaxTasks
    /\ \E w \in Workers : Len(executed[w]) >= 2

\* the tasks worker w called whose callable raised
Failed(w) == {id \in Range(executed[w]) : id \notin finished}

\* C17: when the callable of a task raises, the worker that called it is
\* dead from then on: the task is the last one it called, no result of it is
\* forwarded, its task_done() is never called (the queue keeps it counted as
\* unfinished together with everything queued behind it), and no worker is
\* dead but by a failure of a task of its own.
C17_WorkerDiesSilently ==
    \A w \in Workers :
        /\ \A id \in Failed(w) :
              /\ wpc[w] = "dead"
              /\ wtask[w] = id
              /\ executed[w][Len(executed[w])] = id
              /\ Forwarded(id) = 0
              /\ ~Signalled(id)
              /\ unfinished[w] = Len(queue_list[w]) + 1
        /\ wpc[w] = "dead" => Failed(w) # {}

\* a worker died; a task added to its queue later stays there, while another
\* worker has run a task submitted after the one that failed
C17_Witness ==
    \E w \in Workers : \E w2 \in Workers \ {w} :
        /\ wpc[w] = "dead"
        /\ \E p \in 1..Len(queue_list[w]) : queue_list[w][p].id > wtask[w]
        /\ \E id \in Range(executed[w2]) : id > wtask[w] /\ Signalled(id)

\* ======================================================================
\* submit_id called by several threads with no lock (SpecConc): each step is
\* one read or write of the pool's shared fields. The workers are not
\* scheduled here: they touch none of the fields submit_id reads.
\* ======================================================================
\* number of submit_id calls in a run of SpecConc
MaxConcCalls == 3
\* number of distinct keys the concurrent submitters use
MaxConcKeys == 2

\* the pool fields submit_id never writes
poolRest == <<max_workers, max_watching, has_out, out_queue, wpc, wtask,
              sd_pc, sd_i, log, executed, finished, late>>

\* the workers whose deque holds key
HoldersOfKey(key) == {w \in Workers : KeyIn(watching_list[w], key)}

\* line 96-99: thread t enters submit_id(key, f); worker_id = None
ConcCall(t, key) ==
    /\ th[t].pc = "idle"
    /\ calls < MaxConcCalls
    /\ calls' = calls + 1
    /\ th' = [th EXCEPT ![t] =
                 [pc |-> IF key # None THEN "scan" ELSE "choose",
                  key |-> key, worker_id |-> None, i |-> 0, id |-> calls + 1,
                  dup |-> (key # None /\ Cardinality(HoldersOfKey(key)) >= 2),
                  out |-> "none"]]
    /\ UNCHANGED <<poolVars>>

\* lines 100-104: one iteration of the for loop, reading watching_list[i]
ConcScan(t) ==
    /\ th[t].pc = "scan"
    /\ LET i == th[t].i
       IN  th' = [th EXCEPT ![t] =
                 IF KeyIn(watching_list[i], th[t].key)
                 THEN IF th[t].worker_id # None
                      THEN [@ EXCEPT !.pc = "idle", !.out = "ValueError"]
                      ELSE [@ EXCEPT !.worker_id = i, !.pc = "set_cursor"]
                 ELSE IF i + 1 < max_workers
                      THEN [@ EXCEPT !.i = i + 1]
                      ELSE [@ EXCEPT !.pc = "choose"]]
    /\ UNCHANGED <<poolVars, calls>>

\* lines 108-109: worker_id = self.choose_worker(), reading current_id
ConcChoose(t) ==
    /\ th[t].pc = "choose"
    /\ th' = [th EXCEPT ![t].worker_id = choose_worker(current_id, max_workers),
                        ![t].pc = "set_cursor"]
    /\ UNCHANGED <<poolVars, calls>>

\* line 105 (then break) or line 111: self.current_id = worker_id
ConcSetCursor(t) ==
    /\ th[t].pc = "set_cursor"
    /\ current_id' = th[t].worker_id
    /\ th' = [th EXCEPT ![t].pc = "iq_check"]
    /\ UNCHANGED <<queue_list, unfinished, watching_list, poolRest, calls>>

\* line 84: if key not in watching and key is not None
ConcIqCheck(t) ==
    /\ th[t].pc = "iq_check"
    /\ th' = [th EXCEPT ![t].pc =
                 IF ~KeyIn(watching_list[th[t].worker_id], th[t].key)
                    /\ th[t].key # None
                 THEN "iq_append" ELSE "iq_len"]
    /\ UNCHANGED <<poolVars, calls>>

\* line 85: watching.append(key)
ConcIqAppend(t) ==
    /\ th[t].pc = "iq_append"
    /\ watching_list' = [watching_list EXCEPT
                            ![th[t].worker_id] = Append(@, th[t].key)]
    /\ th' = [th EXCEPT ![t].pc = "iq_len"]
    /\ UNCHANGED <<current_id, queue_list, unfinished, poolRest, calls>>

\* line 86: if len(watching) > self.max_watching
ConcIqLen(t) ==
    /\ th[t].pc = "iq_len"
    /\ th' = [th EXCEPT ![t].pc =
                 IF Len(watching_list[th[t].worker_id]) > max_watching
                 THEN "iq_pop" ELSE "put"]
    /\ UNCHANGED <<poolVars, calls>>

\* line 87: watching.popleft(), an IndexError on a deque emptied meanwhile
ConcIqPop(t) ==
    /\ th[t].pc = "iq_pop"
    /\ IF watching_list[th[t].worker_id] = <<>>
       THEN /\ th' = [th EXCEPT ![t].pc = "idle", ![t].out = "IndexError"]
            /\ UNCHANGED watching_list
       ELSE /\ watching_list' = [watching_list EXCEPT
                                    ![th[t].worker_id] = Tail(@)]
            /\ th' = [th EXCEPT ![t].pc = "put"]
    /\ UNCHANGED <<current_id, queue_list, unfinished, poolRest, calls>>

\* line 120: worker.put((f, args, kwargs)); submit_id returns
ConcPut(t) ==
    /\ th[t].pc = "put"
    /\ queue_list' = [queue_list EXCEPT ![th[t].worker_id] =
                         Append(@, [id |-> th[t].id, key |-> th[t].key])]
    /\ unfinished' = [unfinished EXCEPT ![th[t].worker_id] = @ + 1]
    /\ th' = [th EXCEPT ![t].pc = "idle", ![t].out = "enqueued"]
    /\ UNCHANGED <<current_id, watching_list, poolRest, calls>>

InitConc == PoolInit(1..MaxN, 0..MaxM, {FALSE}) /\ ConcInit /\ BridgeInit

NextConc ==
    \/ \E t \in Threads : \E key \in (1..MaxConcKeys) \cup {None} :
          ConcCall(t, key) /\ UNCHANGED bridgeVars
    \/ \E t \in Threads : ConcScan(t) /\ UNCHANGED bridgeVars
    \/ \E t \in Threads : ConcChoose(t) /\ UNCHANGED bridgeVars
    \/ \E t \in Threads : ConcSetCursor(t) /\ UNCHANGED bridgeVars
    \/ \E t \in Threads : ConcIqCheck(t) /\ UNCHANGED bridgeVars
    \/ \E t \in Threads : ConcIqAppend(t) /\ UNCHANGED bridgeVars
    \/ \E t \in Threads : ConcIqLen(t) /\ UNCHANGED bridgeVars
    \/ \E t \in Threads : ConcIqPop(t) /\ UNCHANGED bridgeVars
    \/ \E t \in Threads : ConcPut(t) /\ UNCHANGED bridgeVars

SpecConc == InitConc /\ [][NextConc]_vars

\* the keys of the calls made so far
KeysUsed ==
    {th[t].key : t \in {u \in Threads : th[u].pc # "idle"}}
    \cup UNION {{queue_list[w][p].key : p \in 1..Len(queue_list[w])} :
                    w \in Workers}

\* C3: submit_id called by several threads at once, with fewer distinct keys
\* than max_watching (no eviction): all tasks of one key are enqueued on one
\* and the same worker.
C3_ConcurrentSameWorker ==
    Cardinality(KeysUsed \ {None}) < max_watching
    => \A w1 \in Workers : \A w2 \in Workers \ {w1} :
          \A p \in 1..Len(queue_list[w1]) : \A q \in 1..Len(queue_list[w2]) :
              queue_list[w1][p].key # None
              => queue_list[w1][p].key # queue_list[w2][q].key

\* C4: a submit_id call made while its key is in the deques of two or more
\* workers ends with ValueError, not with the task enqueued.
C4_DuplicateKeyRaises ==
    \A t \in Threads :
        (th[t].dup /\ th[t].out # "none") => th[t].out = "ValueError"

\* ======================================================================
\* The bridge (SpecBridge): AsyncToSync and SyncToAsync.
\* The application's part: the main thread constructs wrappers and runs its
\* loop for ever; coroutines are spawned on the running home loop; a plain
\* thread calls wrappers; sync functions run on the executor's threads.
\* An operation is a sequence of steps, outermost first:
\*   "ret"  return the argument        "exc"  raise
\*   "s2a"  (in a coroutine) await SyncToAsync(rest)(x)
\*   "a2s"  (anywhere) call AsyncToSync(rest)(x)
\* ======================================================================
\* number of calls the application starts
MaxStarts == 2
\* nesting depth of the operations
MaxDepth == 3

Leafs == {<<"ret">>, <<"exc">>}

\* the coroutine functions (AsyncOpsD) and the sync functions (SyncOpsD) of
\* nesting depth d or less
RECURSIVE AsyncOpsD(_), SyncOpsD(_)
AsyncOpsD(d) ==
    IF d <= 1 THEN Leafs
    ELSE Leafs \cup {<<"s2a">> \o f : f \in SyncOpsD(d - 1)}
               \cup {<<"a2s">> \o a : a \in AsyncOpsD(d - 1)}
SyncOpsD(d) ==
    IF d <= 1 THEN Leafs
    ELSE Leafs \cup {<<"a2s">> \o a : a \in AsyncOpsD(d - 1)}

AsyncOps == AsyncOpsD(MaxDepth)

\* ---- outcomes of a call: a value returned or an exception raised
Ok(x) == [kind |-> "ok", val |-> x]
Exc(x) == [kind |-> "exc", val |-> x]
\* the RuntimeError of lines 152-155
Reentrancy == [kind |-> "reentrancy", val |-> None]
\* RuntimeError('Event loop is closed') of call_soon_threadsafe
LoopClosed == [kind |-> "closed", val |-> None]
\* no outcome yet
Pending == [kind |-> "pending", val |-> None]

\* what a leaf returns or raises
LeafOutcome(op, x) == IF Head(op) = "ret" THEN Ok(x) ELSE Exc(x)

\* ---- stack frames
Frame(f, pc, call, loop, task, op, x) ==
    [f |-> f, pc |-> pc, call |-> call, loop |-> loop, task |-> task,
     op |-> op, x |-> x]

Top(t) == bstack[t][Len(bstack[t])]
Front(stk) == SubSeq(stk, 1, Len(stk) - 1)
TopIs(t, f, pc) ==
    bstack[t] # <<>> /\ Top(t).f = f /\ Top(t).pc = pc

\* asyncio._get_running_loop(): the loop thread t is inside of, or None
RunningLoop(t) ==
    LET idx == {p \in 1..Len(bstack[t]) : bstack[t][p].f = "loop"}
    IN  IF idx = {} THEN None
        ELSE bstack[t][CHOOSE p \in idx : \A q \in idx : q <= p].loop

\* asyncio.get_event_loop() in thread t: the running loop, else the loop set
\* for the thread; None stands for its RuntimeError
GetEventLoop(t) ==
    IF RunningLoop(t) # None THEN RunningLoop(t) ELSE cur_loop[t]

\* loop.is_running()
IsRunning(l) ==
    IF l = HomeLoop THEN home_running ELSE a2s[l].pstate = "running"

\* the loop get_event_loop() gives thread t is running
CurLoopRunning(t) ==
    GetEventLoop(t) # None /\ IsRunning(GetEventLoop(t))

\* a guard that never rejects a call
A2SGuardRaises_never(t) == FALSE

\* AsyncToSync.__call__ lines 146-155: the call raises the RuntimeError
A2SGuardRaises(t) == CurLoopRunning(t)

\* AsyncToSync.__init__ lines 136-142: the main_event_loop it records
A2SInit(t) ==
    IF GetEventLoop(t) # None THEN GetEventLoop(t) ELSE tl_loop[t]

\* call_result = Future(), line 157: nothing stored yet
NoResult == [how |-> "unset", kind |-> "pending", val |-> None]

\* AsyncToSync.main_wrap lines 200-205: what it stores in call_result
main_wrap(o) ==
    IF o.kind = "ok"
    THEN [how |-> "set_result", kind |-> "ok", val |-> o.val]
    ELSE [how |-> "set_exception", kind |-> o.kind, val |-> o.val]

\* call_result.result(), line 187: return the value or raise the exception
FutureResult(cell) ==
    IF cell.how = "set_result" THEN Ok(cell.val)
    ELSE [kind |-> cell.kind, val |-> cell.val]

\* a new task (coroutine) for operation op on loop l; call is the
\* AsyncToSync call whose main_wrap it is, None for an application coroutine
NewTask(l, op, x, call) ==
    [loop |-> l, op |-> op, x |-> x, call |-> call, st |-> "ready",
     started |-> FALSE, res |-> Pending, out |-> Pending, ran_by |-> {}]

\* the coroutine of task T ends with outcome o
TasksAfterFinish(TS, T, o) == [TS EXCEPT ![T].st = "done", ![T].out = o]

\* ... and, being a main_wrap, sets the Future of its call
CallsAfterFinish(A, TS, T, o) ==
    IF TS[T].call = None THEN A
    ELSE [A EXCEPT ![TS[T].call].cell_sets = @ + 1,
                   ![TS[T].call].cell = main_wrap(o)]

\* Call c made by thread t ends with outcome o; stk is the stack of t below
\* the call. The caller goes on: a sync function of thread_handler returns o
\* (its executor future resolves and wakes the awaiting coroutine), a
\* coroutine ends with o, the application just gets o.
Return(t, A, c, o, stk, TS, RQ) ==
    LET A1 == [A EXCEPT ![c].out = o]
    IN  IF stk = <<>>
        THEN /\ a2s' = A1
             /\ bstack' = [bstack EXCEPT ![t] = stk]
             /\ tasks' = TS
             /\ ready' = RQ
        ELSE LET fr == stk[Len(stk)]
             IN  IF fr.f = "sync"
                 THEN /\ a2s' = A1
                      /\ bstack' = [bstack EXCEPT ![t] = Front(stk)]
                      /\ tasks' = [TS EXCEPT ![fr.task].st = "ready",
                                             ![fr.task].res = o]
                      /\ ready' = Append(RQ, fr.task)
                 ELSE /\ a2s' = CallsAfterFinish(A1, TS, A1[c].caller, o)
                      /\ bstack' = [bstack EXCEPT ![t] = stk]
                      /\ tasks' = TasksAfterFinish(TS, A1[c].caller, o)
                      /\ ready' = RQ

\* AsyncToSync.__call__(x) entered by thread t on a wrapper whose
\* main_event_loop is mel (lines 144-157): the guard, then the Future.
CallA2S(t, op, x, mel, stk, TS, RQ, caller) ==
    LET c == Len(a2s) + 1
        rec == [thread |-> t, op |-> op, x |-> x, mel |-> mel,
                caller |-> caller,
                cur_running |-> CurLoopRunning(t),
                driving |-> (RunningLoop(t) # None),
                mel_running |-> (mel # None /\ IsRunning(mel)),
                job_loop |-> IF stk # <<>> /\ stk[Len(stk)].f = "sync"
                             THEN stk[Len(stk)].loop ELSE None,
                path |-> "none", made_cell |-> FALSE, cell_sets |-> 0,
                cell |-> NoResult, pstate |-> "none",
                out |-> Pending]
    IN  IF A2SGuardRaises(t)
        THEN Return(t, Append(a2s, [rec EXCEPT !.path = "rejected"]), c,
                    Reentrancy, stk, TS, RQ)
        ELSE /\ a2s' = Append(a2s, [rec EXCEPT !.made_cell = TRUE])
             /\ bstack' = [bstack EXCEPT ![t] =
                   Append(stk, Frame("a2s", "branch", c, None, None, <<>>, None))]
             /\ tasks' = TS
             /\ ready' = RQ

\* ---- the application
\* thread t is at a point where it runs application code
CanRunCode(t) ==
    IF t \in ExecThreads THEN TopIs(t, "sync", "func") ELSE bstack[t] = <<>>

\* AsyncToSync(awaitable) is constructed by thread t
Construct(t) ==
    /\ CanRunCode(t)
    /\ A2SInit(t) \notin wrappers
    /\ wrappers' = wrappers \cup {A2SInit(t)}
    /\ UNCHANGED <<bstack, cur_loop, tl_loop, home_running, a2s, tasks, ready,
                   exq, nstart>>

\* the main thread runs its loop (run_forever)
StartLoop ==
    /\ bstack[MainThread] = <<>>
    /\ ~home_running
    /\ cur_loop[MainThread] = HomeLoop
    /\ home_running' = TRUE
    /\ bstack' = [bstack EXCEPT ![MainThread] =
          <<Frame("loop", "run", None, HomeLoop, None, <<>>, None)>>]
    /\ UNCHANGED <<cur_loop, tl_loop, wrappers, a2s, tasks, ready, exq, nstart>>

\* a coroutine of the application is scheduled on the running home loop
AppSpawn(op) ==
    /\ home_running
    /\ wrappers # {}
    /\ nstart < MaxStarts
    /\ nstart' = nstart + 1
    /\ tasks' = Append(tasks, NewTask(HomeLoop, op, nstart + 1, None))
    /\ ready' = Append(ready, Len(tasks) + 1)
    /\ UNCHANGED <<bstack, cur_loop, tl_loop, home_running, wrappers, a2s, exq>>

\* the plain thread calls a wrapper of op
CallTop(op, mel) ==
    /\ bstack[PlainThread] = <<>>
    /\ nstart < MaxStarts
    /\ nstart' = nstart + 1
    /\ CallA2S(PlainThread, op, nstart + 1, mel, <<>>, tasks, ready, None)
    /\ UNCHANGED <<cur_loop, tl_loop, home_running, wrappers, exq>>

\* ---- AsyncToSync.__call__ after the guard
\* line 160: if not (self.main_event_loop and self.main_event_loop.is_running());
\* lines 162-169 when it is so: loop = asyncio.new_event_loop(),
\* asyncio.set_event_loop(loop), loop.run_until_complete(self.main_wrap(...))
\* starts. The new loop is named after the call.
A2SBranch(t) ==
    /\ TopIs(t, "a2s", "branch")
    /\ LET c == Top(t).call
           T == Len(tasks) + 1
       IN  IF ~(a2s[c].mel # None /\ IsRunning(a2s[c].mel))
           THEN /\ a2s' = [a2s EXCEPT ![c].path = "private",
                                      ![c].pstate = "running"]
                /\ cur_loop' = [cur_loop EXCEPT ![t] = c]
                /\ tasks' = Append(tasks, NewTask(c, a2s[c].op, a2s[c].x, c))
                /\ ready' = Append(ready, T)
                /\ bstack' = [bstack EXCEPT ![t] =
                      Append([@ EXCEPT ![Len(@)].pc = "finally"],
                             Frame("loop", "run", None, c, T, <<>>, None))]
           ELSE /\ a2s' = [a2s EXCEPT ![c].path = "home"]
                /\ bstack' = [bstack EXCEPT ![t][Len(bstack[t])].pc = "schedule"]
                /\ UNCHANGED <<cur_loop, tasks, ready>>
    /\ UNCHANGED <<tl_loop, home_running, wrappers, exq, nstart>>

\* run_until_complete returns: its task is done
LoopExit(t) ==
    /\ TopIs(t, "loop", "run")
    /\ Top(t).task # None
    /\ tasks[Top(t).task].st = "done"
    /\ a2s' = [a2s EXCEPT ![Top(t).loop].pstate = "stopped"]
    /\ bstack' = [bstack EXCEPT ![t] = Front(@)]
    /\ UNCHANGED <<cur_loop, tl_loop, home_running, wrappers, tasks, ready,
                   exq, nstart>>

\* lines 170-176: loop.close(); asyncio.set_event_loop(self.main_event_loop)
A2SFinally(t) ==
    /\ TopIs(t, "a2s", "finally")
    /\ LET c == Top(t).call
       IN  /\ a2s' = [a2s EXCEPT ![c].pstate = "closed"]
           /\ cur_loop' = [cur_loop EXCEPT ![t] = a2s[c].mel]
           /\ bstack' = [bstack EXCEPT ![t][Len(bstack[t])].pc = "result"]
    /\ UNCHANGED <<tl_loop, home_running, wrappers, tasks, ready, exq, nstart>>

\* lines 177-185: main_event_loop.call_soon_threadsafe(create_task, main_wrap)
A2SSchedule(t) ==
    /\ TopIs(t, "a2s", "schedule")
    /\ LET c == Top(t).call
           mel == a2s[c].mel
       IN  IF mel # HomeLoop /\ a2s[mel].pstate = "closed"
           THEN Return(t, a2s, c, LoopClosed, Front(bstack[t]), tasks, ready)
           ELSE /\ tasks' = Append(tasks, NewTask(mel, a2s[c].op, a2s[c].x, c))
                /\ ready' = Append(ready, Len(tasks) + 1)
                /\ bstack' = [bstack EXCEPT ![t][Len(bstack[t])].pc = "result"]
                /\ UNCHANGED a2s
    /\ UNCHANGED <<cur_loop, tl_loop, home_running, wrappers, exq, nstart>>

\* line 187: return call_result.result(), once the Future is set
A2SResult(t) ==
    /\ TopIs(t, "a2s", "result")
    /\ LET c == Top(t).call
       IN  /\ a2s[c].cell_sets > 0
           /\ Return(t, a2s, c, FutureResult(a2s[c].cell), Front(bstack[t]),
                     tasks, ready)
    /\ UNCHANGED <<cur_loop, tl_loop, home_running, wrappers, exq, nstart>>

\* ---- a loop runs its ready tasks, oldest first
ReadyOf(l) == {p \in 1..Len(ready) : tasks[ready[p]].loop = l}
FirstReady(l) == ready[CHOOSE p \in ReadyOf(l) : \A q \in ReadyOf(l) : p <= q]
Without(seq, x) == SelectSeq(seq, LAMBDA y : y # x)

\* thread t is in its loop and the loop has a ready task
CanStep(t) ==
    /\ TopIs(t, "loop", "run")
    /\ IsRunning(Top(t).loop)
    /\ ReadyOf(Top(t).loop) # {}

\* a coroutine that returns or raises at once; a main_wrap sets its Future
LoopStepLeaf(t) ==
    /\ CanStep(t)
    /\ LET T == FirstReady(Top(t).loop)
           o == LeafOutcome(tasks[T].op, tasks[T].x)
       IN  /\ ~tasks[T].started
           /\ Head(tasks[T].op) \in {"ret", "exc"}
           /\ tasks' = [TasksAfterFinish(tasks, T, o) EXCEPT
                            ![T].ran_by = @ \cup {t}]
           /\ a2s' = CallsAfterFinish(a2s, tasks, T, o)
           /\ ready' = Without(ready, T)
    /\ UNCHANGED <<bstack, cur_loop, tl_loop, home_running, wrappers, exq,
                   nstart>>

\* a SyncToAsync call that runs the function in the calling thread
LoopStepS2A_inline(t) ==
    /\ CanStep(t)
    /\ LET T == FirstReady(Top(t).loop)
       IN  /\ ~tasks[T].started
           /\ Head(tasks[T].op) = "s2a"
           /\ bstack' = [bstack EXCEPT ![t] =
                 Append(@, Frame("sync", "func", None, GetEventLoop(t), T,
                                 Tail(tasks[T].op), tasks[T].x))]
           /\ tasks' = [tasks EXCEPT ![T].st = "waiting", ![T].started = TRUE,
                                     ![T].ran_by = @ \cup {t}]
           /\ ready' = Without(ready, T)
    /\ UNCHANGED <<exq, cur_loop, tl_loop, home_running, wrappers, a2s, nstart>>

\* SyncToAsync.__call__ lines 227-233: the function goes to the executor and
\* the coroutine waits for the future
LoopStepS2A(t) ==
    /\ CanStep(t)
    /\ LET T == FirstReady(Top(t).loop)
       IN  /\ ~tasks[T].started
           /\ Head(tasks[T].op) = "s2a"
           /\ exq' = Append(exq, [op |-> Tail(tasks[T].op), x |-> tasks[T].x,
                                  loop |-> GetEventLoop(t), task |-> T])
           /\ tasks' = [tasks EXCEPT ![T].st = "waiting", ![T].started = TRUE,
                                     ![T].ran_by = @ \cup {t}]
           /\ ready' = Without(ready, T)
    /\ UNCHANGED <<bstack, cur_loop, tl_loop, home_running, wrappers, a2s,
                   nstart>>

\* line 233 resumes: the future is resolved, the coroutine ends with its
\* outcome
LoopStepResume(t) ==
    /\ CanStep(t)
    /\ LET T == FirstReady(Top(t).loop)
       IN  /\ tasks[T].started
           /\ tasks' = [TasksAfterFinish(tasks, T, tasks[T].res) EXCEPT
                            ![T].ran_by = @ \cup {t}]
           /\ a2s' = CallsAfterFinish(a2s, tasks, T, tasks[T].res)
           /\ ready' = Without(ready, T)
    /\ UNCHANGED <<bstack, cur_loop, tl_loop, home_running, wrappers, exq,
                   nstart>>

\* a coroutine calls an AsyncToSync wrapper itself
LoopStepA2S(t, mel) ==
    /\ CanStep(t)
    /\ LET T == FirstReady(Top(t).loop)
       IN  /\ ~tasks[T].started
           /\ Head(tasks[T].op) = "a2s"
           /\ CallA2S(t, Tail(tasks[T].op), tasks[T].x, mel, bstack[t],
                      [tasks EXCEPT ![T].st = "running", ![T].started = TRUE,
                                    ![T].ran_by = @ \cup {t}],
                      Without(ready, T), T)
    /\ UNCHANGED <<cur_loop, tl_loop, home_running, wrappers, exq, nstart>>

\* ---- SyncToAsync.threadpool and thread_handler
\* an idle thread of the executor takes the oldest work item and enters
\* thread_handler; line 246: self.threadlocal.main_event_loop = loop
ExecTake(e) ==
    /\ bstack[e] = <<>>
    /\ exq # <<>>
    /\ bstack' = [bstack EXCEPT ![e] =
          <<Frame("sync", "func", None, Head(exq).loop, Head(exq).task,
                  Head(exq).op, Head(exq).x)>>]
    /\ tl_loop' = [tl_loop EXCEPT ![e] = Head(exq).loop]
    /\ exq' = Tail(exq)
    /\ UNCHANGED <<cur_loop, home_running, wrappers, a2s, tasks, ready, nstart>>

\* line 248: self.func returns or raises; the future resolves and the
\* awaiting coroutine is made ready on its loop
FuncLeaf(t) ==
    /\ TopIs(t, "sync", "func")
    /\ Head(Top(t).op) \in {"ret", "exc"}
    /\ tasks' = [tasks EXCEPT ![Top(t).task].st = "ready",
                              ![Top(t).task].res = LeafOutcome(Top(t).op, Top(t).x)]
    /\ ready' = Append(ready, Top(t).task)
    /\ bstack' = [bstack EXCEPT ![t] = Front(@)]
    /\ UNCHANGED <<cur_loop, tl_loop, home_running, wrappers, a2s, exq, nstart>>

\* line 248: self.func calls an AsyncToSync wrapper
FuncA2S(t, mel) ==
    /\ TopIs(t, "sync", "func")
    /\ Head(Top(t).op) = "a2s"
    /\ CallA2S(t, Tail(Top(t).op), Top(t).x, mel,
               [bstack[t] EXCEPT ![Len(bstack[t])].pc = "wait"],
               tasks, ready, None)
    /\ UNCHANGED <<cur_loop, tl_loop, home_running, wrappers, exq, nstart>>

\* the pool is not used by the bridge
InitBridge == PoolInit(1..1, 0..0, {FALSE}) /\ ConcInit /\ BridgeInit

NextBridge ==
    \/ \E t \in BThreads : Construct(t) /\ UNCHANGED <<poolVars, concVars>>
    \/ StartLoop /\ UNCHANGED <<poolVars, concVars>>
    \/ \E op \in AsyncOps : AppSpawn(op) /\ UNCHANGED <<poolVars, concVars>>
    \/ \E op \in AsyncOps : \E mel \in wrappers :
          CallTop(op, mel) /\ UNCHANGED <<poolVars, concVars>>
    \/ \E t \in BThreads : A2SBranch(t) /\ UNCHANGED <<poolVars, concVars>>
    \/ \E t \in BThreads : LoopExit(t) /\ UNCHANGED <<poolVars, concVars>>
    \/ \E t \in BThreads : A2SFinally(t) /\ UNCHANGED <<poolVars, concVars>>
    \/ \E t \in BThreads : A2SSchedule(t) /\ UNCHANGED <<poolVars, concVars>>
    \/ \E t \in BThreads : A2SResult(t) /\ UNCHANGED <<poolVars, concVars>>
    \/ \E t \in BThreads : LoopStepLeaf(t) /\ UNCHANGED <<poolVars, concVars>>
    \/ \E t \in BThreads : LoopStepS2A(t) /\ UNCHANGED <<poolVars, concVars>>
    \/ \E t \in BThreads : LoopStepResume(t) /\ UNCHANGED <<poolVars, concVars>>
    \/ \E t \in BThreads : \E mel \in wrappers :
          LoopStepA2S(t, mel) /\ UNCHANGED <<poolVars, concVars>>
    \/ \E e \in ExecThreads : ExecTake(e) /\ UNCHANGED <<poolVars, concVars>>
    \/ \E t \in BThreads : FuncLeaf(t) /\ UNCHANGED <<poolVars, concVars>>
    \/ \E t \in BThreads : \E mel \in wrappers :
          FuncA2S(t, mel) /\ UNCHANGED <<poolVars, concVars>>

SpecBridge == InitBridge /\ [][NextBridge]_vars

\* ======================================================================
\* Properties of the bridge
\* ======================================================================
Calls == 1..Len(a2s)
TaskIds == 1..Len(tasks)

\* the tasks created for call c
TasksOf(c) == {T \in TaskIds : tasks[T].call = c}

\* call c is still on the stack of its thread: the caller is inside it
Blocked(c) ==
    \E t \in BThreads : \E p \in 1..Len(bstack[t]) :
        bstack[t][p].f = "a2s" /\ bstack[t][p].call = c

\* C8: a call of AsyncToSync made by a thread whose current event loop is
\* running ends at once with the reentrancy RuntimeError: no coroutine is
\* scheduled for it on any loop, no private loop is made, no Future is made
\* or waited on, and the caller is never left inside the call.
C8_ReentrancyGuard ==
    \A c \in Calls :
        a2s[c].cur_running =>
            /\ a2s[c].path = "rejected"
            /\ a2s[c].out = Reentrancy
            /\ TasksOf(c) = {}
            /\ a2s[c].pstate = "none"
            /\ ~a2s[c].made_cell
            /\ a2s[c].cell_sets = 0
            /\ ~Blocked(c)

\* a coroutine running on a loop called a wrapper and was rejected
C8_Witness ==
    \E c \in Calls :
        /\ a2s[c].cur_running
        /\ a2s[c].driving
        /\ a2s[c].caller # None
        /\ a2s[c].path = "rejected"
        /\ a2s[c].out = Reentrancy

\* The outcome of awaiting op(x) in a coroutine (inLoop) or of calling it as
\* the function of a SyncToAsync on an executor thread (~inLoop), when every
\* wrapper hands back what its operation does and a wrapper called from a
\* coroutine is rejected.
RECURSIVE Denote(_, _, _)
Denote(op, x, inLoop) ==
    IF Head(op) \in {"ret", "exc"} THEN LeafOutcome(op, x)
    ELSE IF Head(op) = "s2a" THEN Denote(Tail(op), x, FALSE)
    ELSE IF inLoop THEN Reentrancy
    ELSE Denote(Tail(op), x, TRUE)

\* C9: every call of AsyncToSync made by a thread that is not running an
\* event loop, once it has ended, has given its caller exactly the outcome
\* of the wrapped operation (the value returned or the exception raised),
\* on the home-loop path and on the private-loop path alike, and its Future
\* was set exactly once.
C9_RoundTrip ==
    \A c \in Calls :
        (~a2s[c].driving /\ a2s[c].out # Pending) =>
            /\ a2s[c].out = Denote(a2s[c].op, a2s[c].x, TRUE)
            /\ a2s[c].cell_sets = 1

\* the sync frames: functions of SyncToAsync being run
SyncFrames ==
    {tp \in BThreads \X (1..(MaxDepth + 2)) :
        tp[2] <= Len(bstack[tp[1]]) /\ bstack[tp[1]][tp[2]].f = "sync"}

\* the work items of task T: queued at the executor or being run
JobsOf(T) ==
    Cardinality({p \in 1..Len(exq) : exq[p].task = T})
    + Cardinality({tp \in SyncFrames : bstack[tp[1]][tp[2]].task = T})

\* C10: while the function of a SyncToAsync call runs, it runs on a thread
\* of the executor that is in no event loop; the coroutine that awaits it is
\* suspended; the loop of that coroutine, while running, has its thread in
\* the loop, ready to run other coroutines; and a coroutine is suspended
\* only for its own work item.
C10_RunsOnExecutor ==
    /\ \A tp \in SyncFrames :
          LET t == tp[1]
              fr == bstack[t][tp[2]]
          IN  /\ t \in ExecThreads
              /\ \A q \in 1..(tp[2] - 1) : bstack[t][q].f # "loop"
              /\ tasks[fr.task].st = "waiting"
              /\ IsRunning(fr.loop) =>
                    \E d \in BThreads \ {t} :
                        TopIs(d, "loop", "run") /\ Top(d).loop = fr.loop
    /\ \A T \in TaskIds : tasks[T].st = "waiting" => JobsOf(T) = 1

\* a function runs on an executor thread while a coroutine created later on
\* the same loop has already run to its end
C10_Witness ==
    \E tp \in SyncFrames : \E T \in TaskIds :
        /\ tp[1] \in ExecThreads
        /\ bstack[tp[1]][tp[2]].pc = "func"
        /\ T > bstack[tp[1]][tp[2]].task
        /\ tasks[T].loop = bstack[tp[1]][tp[2]].loop
        /\ tasks[T].st = "done"
        /\ tasks[bstack[tp[1]][tp[2]].task].st = "waiting"

\* C14: a call of AsyncToSync made by the function of a SyncToAsync call
\* that a coroutine on loop L awaits has its coroutine scheduled on L and
\* makes no private loop, whichever thread constructed the wrapper and
\* whatever the executor thread ran before.
C14_NestedCallOnOriginalLoop ==
    \A c \in Calls :
        (a2s[c].job_loop # None /\ a2s[c].path # "none") =>
            /\ a2s[c].path = "home"
            /\ a2s[c].mel = a2s[c].job_loop
            /\ a2s[c].pstate = "none"
            /\ \A T \in TasksOf(c) : tasks[T].loop = a2s[c].job_loop

\* C15: a call of AsyncToSync made by thread T while the wrapper's
\* main_event_loop is running on another thread takes the home-loop path:
\* no private loop is made, the coroutine is a task of main_event_loop and
\* is run by the thread of that loop, never by T, and T leaves the call only
\* after the coroutine has ended and set the Future, with what the Future
\* holds.
C15_HomeLoopHandOff ==
    \A c \in Calls :
        (a2s[c].mel_running /\ ~a2s[c].driving) =>
            /\ a2s[c].path \in {"none", "home"}
            /\ a2s[c].pstate = "none"
            /\ \A T \in TasksOf(c) :
                  /\ tasks[T].loop = a2s[c].mel
                  /\ a2s[c].thread \notin tasks[T].ran_by
            /\ a2s[c].out # Pending =>
                  /\ a2s[c].cell_sets = 1
                  /\ \E T \in TasksOf(c) : tasks[T].st = "done"
                  /\ a2s[c].out = FutureResult(a2s[c].cell)

\* C16: a call of AsyncToSync that finds no running main_event_loop makes a
\* private loop for itself, its coroutine runs on that loop in the calling
\* thread only, and when the call has returned or raised the loop is closed
\* and is recorded nowhere as a home loop: it is no wrapper's
\* main_event_loop and no thread's threadlocal main_event_loop.
C16_PrivateLoopTornDown ==
    \A c \in Calls :
        a2s[c].path = "private" =>
            /\ \A T \in TasksOf(c) :
                  tasks[T].loop = c /\ tasks[T].ran_by \subseteq {a2s[c].thread}
            /\ a2s[c].out # Pending =>
                  /\ a2s[c].pstate = "closed"
                  /\ \E T \in TasksOf(c) : tasks[T].st = "done"
                  /\ c \notin wrappers
                  /\ \A t \in BThreads : tl_loop[t] # c

\* C19: AsyncToSync.__call__ raises the reentrancy RuntimeError only in a
\* thread that is itself inside a running event loop; a thread in no loop is
\* never rejected because a loop run by another thread is running.
C19_RejectsOnlyDrivingThread ==
    \A c \in Calls : a2s[c].path = "rejected" => a2s[c].driving

\* ======================================================================
\* SpecBridgeFair: a server. The main thread constructs the wrappers and
\* runs its loop; its coroutines await SyncToAsync functions, which call
\* the wrappers. Every thread that can take a step eventually takes one.
\* ======================================================================
\* the coroutine functions of the server
LiveOps == {<<"s2a", "ret">>, <<"s2a", "a2s", "ret">>,
            <<"s2a", "a2s", "s2a", "ret">>}

\* the steps of thread t: in its loop, in AsyncToSync.__call__ on the
\* home-loop path, in the executor
ThreadStep(t) ==
    \/ A2SBranch(t)
    \/ A2SSchedule(t)
    \/ A2SResult(t)
    \/ LoopStepLeaf(t)
    \/ LoopStepS2A(t)
    \/ LoopStepResume(t)
    \/ t \in ExecThreads /\ ExecTake(t)
    \/ FuncLeaf(t)
    \/ \E mel \in wrappers : FuncA2S(t, mel)

NextBridgeFair ==
    \/ Construct(MainThread) /\ UNCHANGED <<poolVars, concVars>>
    \/ StartLoop /\ UNCHANGED <<poolVars, concVars>>
    \/ \E op \in LiveOps : AppSpawn(op) /\ UNCHANGED <<poolVars, concVars>>
    \/ \E t \in BThreads : A2SBranch(t) /\ UNCHANGED <<poolVars, concVars>>
    \/ \E t \in BThreads : A2SSchedule(t) /\ UNCHANGED <<poolVars, concVars>>
    \/ \E t \in BThreads : A2SResult(t) /\ UNCHANGED <<poolVars, concVars>>
    \/ \E t \in BThreads : LoopStepLeaf(t) /\ UNCHANGED <<poolVars, concVars>>
    \/ \E t \in BThreads : LoopStepS2A(t) /\ UNCHANGED <<poolVars, concVars>>
    \/ \E t \in BThreads : LoopStepResume(t) /\ UNCHANGED <<poolVars, concVars>>
    \/ \E e \in ExecThreads : ExecTake(e) /\ UNCHANGED <<poolVars, concVars>>
    \/ \E t \in BThreads : FuncLeaf(t) /\ UNCHANGED <<poolVars, concVars>>
    \/ \E t \in BThreads : \E mel \in wrappers :
          FuncA2S(t, mel) /\ UNCHANGED <<poolVars, concVars>>

\* the operating system schedules every thread that is not blocked
FairThreads ==
    \A t \in BThreads : WF_vars(ThreadStep(t) /\ UNCHANGED <<poolVars, concVars>>)

SpecBridgeFair == InitBridge /\ [][NextBridgeFair]_vars /\ FairThreads

\* the tasks a run of the server can create
LiveTaskIds == 1..(2 * MaxStarts)

\* C20: with the home loop running, every coroutine that awaits a
\* SyncToAsync call is eventually resumed and ends, also when the function
\* calls an AsyncToSync wrapper whose coroutine awaits a further SyncToAsync
\* call on the same executor.
C20_AwaitCompletes ==
    \A T \in LiveTaskIds :
        (T \in TaskIds /\ tasks[T].st = "waiting")
            ~> (T \in TaskIds /\ tasks[T].st = "done")

====
